---- MODULE Spec2Model ----
(***************************************************************************)
(* Smart Confidant: the rotating debug log (app.py log_debug /             *)
(* get_debug_logs), the chat response dispatcher (app.py respond) and the  *)
(* deployment menu (deploy.py main), each as a state machine.              *)
(*                                                                         *)
(*   SpecLog      concurrent log_debug / get_debug_logs calls              *)
(*   SpecRespond  requests served by respond, one after another            *)
(*   SpecDeploy   one run of deploy.py main() and of the app it starts     *)
(***************************************************************************)
EXTENDS Integers, Sequences, FiniteSets, TLC

VARIABLES
    \* ---- app.py, debug log (lines 36-59)
    debug_logs,     \* the list debug_logs
    debug_lock,     \* "free" or the thread holding debug_lock
    lpc,            \* per logging thread: position inside log_debug
    log_entry,      \* per logging thread: the local log_entry
    joined,         \* per logging thread: the lines last returned to it
    released,       \* history, per logging thread: debug_logs as its last
                    \* log_debug left it on freeing the lock
    appended,       \* history: every entry ever appended, in append order
    nextMsg,        \* history: number of the next message to be logged
    nCalls,         \* history: log_debug calls made since the start
    \* ---- app.py, respond (lines 189-323) and its globals
    pipe,           \* the global pipe: None or the loaded pipeline
    HF_TOKEN,       \* os.environ.get("HF_TOKEN", None)
    concurrency,    \* how many respond calls the UI framework runs at once
    received,       \* history: requests handed to respond so far
    outcomes,       \* history: "ok" / "error" of each request served, in order
    rpc,            \* per handler thread: position inside respond
    req,            \* per handler thread: the arguments and locals of its call
    yielded,        \* per handler thread: the strings yielded by its call
    did,            \* per handler thread: what its call has done so far
    \* ---- deploy.py, main (lines 149-198), and the app process it starts
    DEFAULT_CHOICE, \* the setting DEFAULT_CHOICE: <<>> for None, else <<n>>
    dpc,            \* position inside main
    choice,         \* the local choice
    ran,            \* the steps main has called, in call order
    failed,         \* the steps that returned False
    exit_status,    \* -1 while running, else the status the process ended with
    banner,         \* "Deployment complete!" has been printed
    app_env_port,   \* PORT in the environment of the started app, 0 if absent
    server_port     \* the port the app's UI server listens on, 0 if none

logVars == <<debug_logs, debug_lock, lpc, log_entry, joined, released,
            appended, nextMsg, nCalls>>

respVars == <<pipe, HF_TOKEN, concurrency, received, outcomes, rpc, req, yielded,
             did>>

depVars == <<DEFAULT_CHOICE, dpc, choice, ran, failed, exit_status, banner,
            app_env_port, server_port>>

vars == <<logVars, respVars, depVars>>

\* ------------------------------------------------------------------------
\* Bounds
\* ------------------------------------------------------------------------
MaxCalls == 3       \* log_debug calls that may overlap one another
LastAlone == 103    \* log_debug calls made one at a time before those
MaxRequests == 2    \* requests handed to respond
MaxChunks == 2      \* pieces of text in one API completion

\* ------------------------------------------------------------------------
\* app.py: debug log
\* ------------------------------------------------------------------------
MAX_LOG_LINES == 100

None == "None"

LogThreads == {"t1", "t2"}

\* The numbers of calls made one at a time (as the import-time and start-up
\* calls are) after which calls that overlap are explored.
StartCalls == {0, 1, MAX_LOG_LINES - 2, MAX_LOG_LINES - 1, MAX_LOG_LINES, LastAlone}

\* f"[{timestamp}] [{level}] {message}": an entry is its level and message;
\* the timestamp does not identify it and is left out.
LogEntry(level, message) == <<level, message>>

\* debug_logs.append(log_entry)
AppendEntry(logs, e) == Append(logs, e)

\* A trim that lets one entry too many stay.
TrimLogsLate(logs) == IF Len(logs) > MAX_LOG_LINES + 1 THEN Tail(logs) ELSE logs

\* A trim that drops the newest entry: pop() in place of pop(0).
TrimLogsNewest(logs) ==
    IF Len(logs) > MAX_LOG_LINES THEN SubSeq(logs, 1, Len(logs) - 1) ELSE logs

\* if len(debug_logs) > MAX_LOG_LINES: debug_logs.pop(0)
TrimLogs(logs) == IF Len(logs) > MAX_LOG_LINES THEN Tail(logs) ELSE logs

\* The whole body of "with debug_lock:" in log_debug.
Logged(logs, e) == TrimLogs(AppendEntry(logs, e))

\* "\n".join(debug_logs): the lines of the returned string.
JoinLines(logs) == logs

\* log_debug called for each of the entries es in turn, no other call between.
RECURSIVE LoggedAll(_, _)
LoggedAll(logs, es) ==
    IF es = <<>> THEN logs ELSE LoggedAll(Logged(logs, Head(es)), Tail(es))

LogStart ==
    /\ debug_logs = <<>>
    /\ appended = <<>>
    /\ nextMsg = 1
    /\ nCalls = 0
    /\ debug_lock = "free"
    /\ lpc = [t \in LogThreads |-> "idle"]
    /\ log_entry = [t \in LogThreads |-> None]
    /\ joined = [t \in LogThreads |-> <<>>]
    /\ released = [t \in LogThreads |-> <<>>]

\* ------------------------------------------------------------------------
\* app.py: strings.  A string is the sequence of its characters; a model
\* name is kept as one piece, since no name holds a piece of a label.
\* ------------------------------------------------------------------------
LOCAL_MODELS == << <<"arnir0/Tiny-LLM">> >>
API_MODELS == << <<"google/gemma-2-2b-it">>, <<"HuggingFaceH4/zephyr-7b-beta">> >>

LocalSuffix == <<"(", "l", "o", "c", "a", "l", ")">>          \* "(local)"
LocalLabel == <<" ", "(", "l", "o", "c", "a", "l", ")">>      \* " (local)"
ApiLabel == <<" ", "(", "a", "p", "i", ")">>                  \* " (api)"

\* MODEL_OPTIONS: f"{model} (local)" for each local model, then
\* f"{model} (api)" for each API model.
MODEL_OPTIONS ==
    [i \in 1..Len(LOCAL_MODELS) |-> LOCAL_MODELS[i] \o LocalLabel]
        \o [i \in 1..Len(API_MODELS) |-> API_MODELS[i] \o ApiLabel]

\* s.endswith(suffix)
EndsWith(s, suffix) ==
    /\ Len(s) >= Len(suffix)
    /\ SubSeq(s, Len(s) - Len(suffix) + 1, Len(s)) = suffix

\* s.replace(old, new): every occurrence, left to right, without overlap.
RECURSIVE Replace(_, _, _)
Replace(s, old, new) ==
    IF Len(s) < Len(old) THEN s
    ELSE IF SubSeq(s, 1, Len(old)) = old
         THEN new \o Replace(SubSeq(s, Len(old) + 1, Len(s)), old, new)
         ELSE <<Head(s)>> \o Replace(Tail(s), old, new)

\* s.strip()
RECURSIVE LStrip(_)
LStrip(s) == IF s # <<>> /\ Head(s) \in {" ", "\n"} THEN LStrip(Tail(s)) ELSE s
RECURSIVE RStrip(_)
RStrip(s) ==
    IF s # <<>> /\ s[Len(s)] \in {" ", "\n"} THEN RStrip(SubSeq(s, 1, Len(s) - 1)) ELSE s
Strip(s) == RStrip(LStrip(s))

\* ------------------------------------------------------------------------
\* app.py: respond
\* ------------------------------------------------------------------------
Handlers == {"h1", "h2"}

\* is_local taken from the label anywhere in the string, not from its end.
IsLocalAnywhere(selected_model) ==
    \E i \in 1..Len(selected_model) :
        /\ i + Len(LocalLabel) - 1 <= Len(selected_model)
        /\ SubSeq(selected_model, i, i + Len(LocalLabel) - 1) = LocalLabel

\* respond line 227
IsLocal(selected_model) == EndsWith(selected_model, LocalSuffix)

\* respond line 228
ModelName(selected_model) ==
    Replace(Replace(selected_model, LocalLabel, <<>>), ApiLabel, <<>>)

\* The values of selected_model tried: the radio options, a second local
\* model, a local suffix without the space, and a label that is not at the end.
SelectedModels ==
    {MODEL_OPTIONS[i] : i \in 1..Len(MODEL_OPTIONS)}
        \cup {<<"other/model">> \o LocalLabel,
              <<"m">> \o LocalSuffix,
              <<"m">> \o LocalLabel \o <<"-", "v", "2">>}

\* The error marker that starts every error string ('❌' in the source).
ERROR_MARKER == "(x)"

\* f"{marker} {kind}: {str(e)}\n\nPlease check log.txt for details."
ErrorString(kind, e) ==
    <<ERROR_MARKER, " ", kind, ":", " ", e, "\n", "\n", "Please check log.txt for details.">>

\* The exceptions a failing step raises.
Raised == {"ImportError", "Exception"}

\* Only the ImportError clause: anything else leaves respond.
CatchImportOnly(site, e) ==
    IF site = "local" /\ e = "ImportError" THEN "import_error" ELSE "raised"

\* Where an exception raised at a site of respond is handled: the except
\* clauses of lines 268, 273, 313 and 319.
Catch(site, e) ==
    CASE site = "local" /\ e = "ImportError" -> "import_error"
      [] site = "local" -> "local_error"
      [] site = "api" -> "api_error"
      [] OTHER -> "unexpected"

\* The text a local pipeline generates after the prompt.
LocalTexts == {<<>>, <<"a">>, <<" ", "a", "b", "\n">>}

\* The i-th piece of a completion's text.
ChunkText(i) == IF i % 2 = 1 THEN "ab" ELSE " "

\* completion.choices[0].message.content: a text of k pieces, or None.
ApiContents == {[i \in 1..k |-> ChunkText(i)] : k \in 0..MaxChunks}

\* A pipeline() that ignores the model asked for and loads the first local one.
PipelineOfDefault(m) == [loaded |-> TRUE, name_or_path |-> LOCAL_MODELS[1]]

\* pipe = None, and the pipeline that pipeline("text-generation", model=m)
\* returns: its model.name_or_path is m.
NoPipe == [loaded |-> FALSE, name_or_path |-> <<>>]
Pipeline(m) == [loaded |-> TRUE, name_or_path |-> m]

\* One yield per piece received, each the text so far.
ApiYieldsGrowing(content) == [i \in 1..Len(content) |-> SubSeq(content, 1, i)]

\* respond line 311: what the API path yields for a completion's content.
ApiYields(content) == <<content>>

ReqIdle ==
    [selected_model |-> <<>>, args_ok |-> TRUE, is_local |-> FALSE,
     model_name |-> <<>>, hf_token |-> None, e |-> None, response |-> <<>>,
     content_is_none |-> FALSE]

\* What a call has done: the models given to pipeline(), the pipelines run,
\* the api keys given to InferenceClient, the completions asked for, the
\* entries logged, and the number of import attempts.
DidNothing ==
    [imports |-> 0, loads |-> <<>>, inferences |-> <<>>, clients |-> <<>>,
     completions |-> <<>>, logged |-> <<>>]

RespondStart(limit, tokens) ==
    /\ pipe = NoPipe
    /\ HF_TOKEN \in tokens
    /\ concurrency = limit
    /\ received = 0
    /\ outcomes = <<>>
    /\ rpc = [t \in Handlers |-> "idle"]
    /\ req = [t \in Handlers |-> ReqIdle]
    /\ yielded = [t \in Handlers |-> <<>>]
    /\ did = [t \in Handlers |-> DidNothing]

\* ------------------------------------------------------------------------
\* deploy.py
\* ------------------------------------------------------------------------
LOCAL_PORT == 8080

\* The port given to demo.launch (app.py line 374).
SERVER_PORT == 8012

\* app.py line 374: demo.launch(server_name="0.0.0.0", server_port=8012,
\* share=True).  The environment, env_port included, is not read.
LaunchPort(env_port) == SERVER_PORT

Digits == <<"0", "1", "2", "3", "4", "5", "6", "7", "8", "9">>

\* str(n) for n >= 0
RECURSIVE Str(_)
Str(n) == IF n < 10 THEN <<Digits[n + 1]>> ELSE Str(n \div 10) \o <<Digits[(n % 10) + 1]>>

\* The settings of DEFAULT_CHOICE tried: None, the menu options and one more.
DefaultChoices == {<<>>} \cup {<<n>> : n \in 1..6}

\* The lines typed at "Enter choice [1-5]: ".
TypedLines ==
    {<<"1">>, <<"2">>, <<"3">>, <<"4">>, <<"5">>, <<" ", "3", " ">>, <<"6">>,
     <<"0">>, <<>>, <<"1", "2">>}

\* The menu with the two cloud deployments exchanged.
MenuActionSwapped(c) ==
    CASE c = <<"1">> -> "deploy_azure"
      [] c = <<"2">> -> "deploy_gcp"
      [] c = <<"3">> -> "deploy_aws"
      [] c = <<"4">> -> "skip"
      [] c = <<"5">> -> "run_local"
      [] OTHER -> "invalid"

\* main lines 181-194: the if / elif chain on choice.
MenuAction(c) ==
    CASE c = <<"1">> -> "deploy_gcp"
      [] c = <<"2">> -> "deploy_azure"
      [] c = <<"3">> -> "deploy_aws"
      [] c = <<"4">> -> "skip"
      [] c = <<"5">> -> "run_local"
      [] OTHER -> "invalid"

DeployStart(settings) ==
    /\ DEFAULT_CHOICE \in settings
    /\ dpc = "start"
    /\ choice = <<>>
    /\ ran = <<>>
    /\ failed = {}
    /\ exit_status = -1
    /\ banner = FALSE
    /\ app_env_port = 0
    /\ server_port = 0

\* ------------------------------------------------------------------------
\* SpecLog: concurrent calls of log_debug and get_debug_logs
\* ------------------------------------------------------------------------
InitLog ==
    /\ LogStart
    /\ RespondStart(1, {None})
    /\ DeployStart({<<>>})

\* A whole call of log_debug (lines 45-54) on the main thread while no other
\* call is under way and nothing has been read yet; the string it returns is
\* dropped, as the start-up calls drop it.
LogAlone ==
    /\ nCalls = 0
    /\ nextMsg <= LastAlone
    /\ debug_lock = "free"
    /\ \A t \in LogThreads : lpc[t] = "idle" /\ joined[t] = <<>>
    /\ debug_logs' = Logged(debug_logs, LogEntry("INFO", nextMsg))
    /\ appended' = Append(appended, LogEntry("INFO", nextMsg))
    /\ nextMsg' = nextMsg + 1
    /\ UNCHANGED <<respVars, depVars>>
    /\ UNCHANGED <<debug_lock, lpc, log_entry, joined, released, nCalls>>

\* log_debug lines 47-48: format the entry, before the lock is taken.
LogFormat(t) ==
    /\ lpc[t] = "idle"
    /\ nCalls < MaxCalls
    /\ nCalls = 0 => (nextMsg - 1) \in StartCalls
    /\ \E level \in {"INFO", "ERROR"} :
          log_entry' = [log_entry EXCEPT ![t] = LogEntry(level, nextMsg)]
    /\ nextMsg' = nextMsg + 1
    /\ nCalls' = nCalls + 1
    /\ lpc' = [lpc EXCEPT ![t] = "lock"]
    /\ UNCHANGED <<respVars, depVars>>
    /\ UNCHANGED <<debug_logs, debug_lock, joined, released, appended>>

\* log_debug line 49: "with debug_lock:" is entered once the lock is free.
LogAcquire(t) ==
    /\ lpc[t] = "lock"
    /\ debug_lock = "free"
    /\ debug_lock' = t
    /\ lpc' = [lpc EXCEPT ![t] = "append"]
    /\ UNCHANGED <<respVars, depVars>>
    /\ UNCHANGED <<debug_logs, log_entry, joined, released, appended, nextMsg,
                   nCalls>>

\* log_debug line 50.
LogAppend(t) ==
    /\ lpc[t] = "append"
    /\ debug_logs' = AppendEntry(debug_logs, log_entry[t])
    /\ appended' = Append(appended, log_entry[t])
    /\ lpc' = [lpc EXCEPT ![t] = "trim"]
    /\ UNCHANGED <<respVars, depVars>>
    /\ UNCHANGED <<debug_lock, log_entry, joined, released, nextMsg, nCalls>>

\* log_debug lines 51-52 and the end of the with block, which frees the lock.
LogTrim(t) ==
    /\ lpc[t] = "trim"
    /\ debug_logs' = TrimLogs(debug_logs)
    /\ debug_lock' = "free"
    /\ released' = [released EXCEPT ![t] = JoinLines(TrimLogs(debug_logs))]
    /\ lpc' = [lpc EXCEPT ![t] = "join"]
    /\ UNCHANGED <<respVars, depVars>>
    /\ UNCHANGED <<log_entry, joined, appended, nextMsg, nCalls>>

\* log_debug lines 53-54: print, then join debug_logs without the lock.
LogReturn(t) ==
    /\ lpc[t] = "join"
    /\ joined' = [joined EXCEPT ![t] = JoinLines(debug_logs)]
    /\ lpc' = [lpc EXCEPT ![t] = "idle"]
    /\ UNCHANGED <<respVars, depVars>>
    /\ UNCHANGED <<debug_logs, debug_lock, log_entry, released, appended,
                   nextMsg, nCalls>>

\* get_debug_logs lines 56-59: the join is made holding the lock.
GetDebugLogs(t) ==
    /\ lpc[t] = "idle"
    /\ debug_lock = "free"
    /\ nCalls = 0 => (nextMsg - 1) \in StartCalls
    /\ joined' = [joined EXCEPT ![t] = JoinLines(debug_logs)]
    /\ UNCHANGED <<respVars, depVars>>
    /\ UNCHANGED <<debug_logs, debug_lock, lpc, log_entry, released, appended,
                   nextMsg, nCalls>>

NextLog ==
    \/ LogAlone
    \/ \E t \in LogThreads :
        \/ LogFormat(t)
        \/ LogAcquire(t)
        \/ LogAppend(t)
        \/ LogTrim(t)
        \/ LogReturn(t)
        \/ GetDebugLogs(t)

SpecLog == InitLog /\ [][NextLog]_vars

\* ------------------------------------------------------------------------
\* SpecRespond: requests served by respond
\* ------------------------------------------------------------------------
InitRespond ==
    /\ LogStart
    /\ RespondStart(1, {None, "hf_secret"})
    /\ DeployStart({<<>>})

\* One step of a respond call on thread t: it moves to position pc, logs the
\* entries es (each a complete log_debug call), and is left with locals r,
\* record d and yields y.
Advance(t, pc, es, r, d, y) ==
    /\ debug_lock = "free"
    /\ debug_logs' = LoggedAll(debug_logs, es)
    /\ appended' = appended \o es
    /\ rpc' = [rpc EXCEPT ![t] = pc]
    /\ req' = [req EXCEPT ![t] = r]
    /\ did' = [did EXCEPT ![t] = [d EXCEPT !.logged = @ \o es]]
    /\ yielded' = [yielded EXCEPT ![t] = y]
    /\ UNCHANGED <<debug_lock, lpc, log_entry, joined, released, nextMsg,
                   nCalls>>
    /\ UNCHANGED <<HF_TOKEN, concurrency, received, outcomes, depVars>>

\* The exception e, raised at a site of respond, reaches its handler.
Raise(t, site, e, es, d) ==
    Advance(t, Catch(site, e), es, [req[t] EXCEPT !.e = e], d, yielded[t])

Info(line) == LogEntry("INFO", line)
Warn(line) == LogEntry("WARN", line)
Error(line) == LogEntry("ERROR", line)

\* The UI framework calls respond on a request thread.
Receive(t) ==
    /\ rpc[t] = "idle"
    /\ received < MaxRequests
    /\ Cardinality({u \in Handlers : rpc[u] # "idle"}) < concurrency
    /\ \E sel \in SelectedModels, ok \in BOOLEAN :
          req' = [req EXCEPT ![t] = [ReqIdle EXCEPT !.selected_model = sel,
                                                    !.args_ok = ok]]
    /\ rpc' = [rpc EXCEPT ![t] = "begin"]
    /\ received' = received + 1
    /\ UNCHANGED <<pipe, HF_TOKEN, concurrency, outcomes, yielded, did, logVars,
                   depVars>>

\* respond lines 215-234 and 281: the message history, is_local, model_name
\* and the branch.  Arguments that cannot be sliced or joined raise here.
Begin(t) ==
    /\ rpc[t] = "begin"
    /\ UNCHANGED pipe
    /\ IF ~req[t].args_ok
       THEN Raise(t, "outer", "Exception", <<>>, did[t])
       ELSE LET sel == req[t].selected_model
                r == [req[t] EXCEPT !.is_local = IsLocal(sel),
                                    !.model_name = ModelName(sel)]
            IN  IF r.is_local
                THEN Advance(t, "import",
                             <<Info(216), Info(217), Info(218), Info(224), Info(234)>>,
                             r, did[t], yielded[t])
                ELSE Advance(t, "token",
                             <<Info(216), Info(217), Info(218), Info(224), Info(281)>>,
                             r, did[t], yielded[t])

\* respond lines 236-238: import transformers and torch.
Import(t) ==
    /\ rpc[t] = "import"
    /\ UNCHANGED pipe
    /\ LET d == [did[t] EXCEPT !.imports = @ + 1]
       IN  \/ Advance(t, "cache", <<Info(238)>>, req[t], d, yielded[t])
           \/ \E e \in Raised : Raise(t, "local", e, <<>>, d)

\* respond lines 241-246: load, or reuse the cached pipeline.
Cache(t) ==
    /\ rpc[t] = "cache"
    /\ UNCHANGED pipe
    /\ IF ~pipe.loaded \/ pipe.name_or_path # req[t].model_name
       THEN Advance(t, "load", <<Info(242)>>, req[t], did[t], yielded[t])
       ELSE Advance(t, "infer", <<Info(246)>>, req[t], did[t], yielded[t])

\* respond lines 243-244: pipe = pipeline("text-generation", model=model_name)
Load(t) ==
    /\ rpc[t] = "load"
    /\ LET d == [did[t] EXCEPT !.loads = Append(@, req[t].model_name)]
       IN  \/ /\ pipe' = Pipeline(req[t].model_name)
              /\ Advance(t, "infer", <<Info(244)>>, req[t], d, yielded[t])
           \/ /\ UNCHANGED pipe
              /\ \E e \in Raised : Raise(t, "local", e, <<>>, d)

\* respond lines 249-261: build the prompt and call pipe(prompt, ...).
Infer(t) ==
    /\ rpc[t] = "infer"
    /\ UNCHANGED pipe
    /\ LET d == [did[t] EXCEPT !.inferences = Append(@, pipe.name_or_path)]
       IN  \/ \E text \in LocalTexts :
                 Advance(t, "yield_local", <<Info(250), Info(253), Info(261)>>,
                         [req[t] EXCEPT !.response = text], d, yielded[t])
           \/ \E e \in Raised : Raise(t, "local", e, <<Info(250), Info(253)>>, d)

\* respond lines 264-266: yield response.strip()
YieldLocal(t) ==
    /\ rpc[t] = "yield_local"
    /\ UNCHANGED pipe
    /\ Advance(t, "finish", <<Info(265)>>, req[t], did[t],
               Append(yielded[t], Strip(req[t].response)))

\* respond lines 268-272
ImportErrorHandler(t) ==
    /\ rpc[t] = "import_error"
    /\ UNCHANGED pipe
    /\ Advance(t, "finish", <<Error(270), Error(271)>>, req[t], did[t],
               Append(yielded[t], ErrorString("Import Error", req[t].e)))

\* respond lines 273-277
LocalErrorHandler(t) ==
    /\ rpc[t] = "local_error"
    /\ UNCHANGED pipe
    /\ Advance(t, "finish", <<Error(275), Error(276)>>, req[t], did[t],
               Append(yielded[t], ErrorString("Local Model Error", req[t].e)))

\* A token check that stops the call when no token is set.
TokenShortCircuit(t) ==
    /\ rpc[t] = "token"
    /\ UNCHANGED pipe
    /\ IF HF_TOKEN # None
       THEN Advance(t, "client", <<Info(287)>>,
                    [req[t] EXCEPT !.hf_token = HF_TOKEN], did[t], yielded[t])
       ELSE Advance(t, "finish", <<Warn(289)>>,
                    [req[t] EXCEPT !.hf_token = HF_TOKEN], did[t],
                    Append(yielded[t], <<"No HF_TOKEN in environment">>))

\* respond lines 284-289: read the token; its absence is only logged.
Token(t) ==
    /\ rpc[t] = "token"
    /\ UNCHANGED pipe
    /\ Advance(t, "client",
               IF HF_TOKEN # None THEN <<Info(287)>> ELSE <<Warn(289)>>,
               [req[t] EXCEPT !.hf_token = HF_TOKEN], did[t], yielded[t])

\* respond lines 291-297: InferenceClient(provider="auto", api_key=hf_token)
Client(t) ==
    /\ rpc[t] = "client"
    /\ UNCHANGED pipe
    /\ LET d == [did[t] EXCEPT !.clients = Append(@, req[t].hf_token)]
       IN  \/ Advance(t, "create", <<Info(292), Info(297)>>, req[t], d, yielded[t])
           \/ \E e \in Raised : Raise(t, "api", e, <<Info(292)>>, d)

\* respond lines 299-307: client.chat.completions.create(model=model_name, ...),
\* called without stream: the answer is one whole completion.
Create(t) ==
    /\ rpc[t] = "create"
    /\ UNCHANGED pipe
    /\ LET d == [did[t] EXCEPT !.completions =
                    Append(@, [model |-> req[t].model_name, stream |-> FALSE])]
       IN  \/ \E content \in ApiContents :
                 Advance(t, "yield_api", <<Info(300)>>,
                         [req[t] EXCEPT !.response = content], d, yielded[t])
           \/ Advance(t, "yield_api", <<Info(300)>>,
                      [req[t] EXCEPT !.content_is_none = TRUE], d, yielded[t])
           \/ \E e \in Raised : Raise(t, "api", e, <<Info(300)>>, d)

\* respond lines 309-311: yield the content; len(None) raises.
YieldApi(t) ==
    /\ rpc[t] = "yield_api"
    /\ UNCHANGED pipe
    /\ IF req[t].content_is_none
       THEN Raise(t, "api", "Exception", <<>>, did[t])
       ELSE Advance(t, "finish", <<Info(310)>>, req[t], did[t],
                    yielded[t] \o ApiYields(req[t].response))

\* respond lines 313-317
ApiErrorHandler(t) ==
    /\ rpc[t] = "api_error"
    /\ UNCHANGED pipe
    /\ Advance(t, "finish", <<Error(315), Error(316)>>, req[t], did[t],
               Append(yielded[t], ErrorString("API Error", req[t].e)))

\* respond lines 319-323
UnexpectedHandler(t) ==
    /\ rpc[t] = "unexpected"
    /\ UNCHANGED pipe
    /\ Advance(t, "finish", <<Error(321), Error(322)>>, req[t], did[t],
               Append(yielded[t], ErrorString("Unexpected Error", req[t].e)))

\* The generator is exhausted: the call is over and the thread is free again.
Finish(t) ==
    /\ rpc[t] = "finish"
    /\ rpc' = [rpc EXCEPT ![t] = "idle"]
    /\ outcomes' = Append(outcomes, IF req[t].e = None THEN "ok" ELSE "error")
    /\ req' = [req EXCEPT ![t] = ReqIdle]
    /\ did' = [did EXCEPT ![t] = DidNothing]
    /\ yielded' = [yielded EXCEPT ![t] = <<>>]
    /\ UNCHANGED <<pipe, HF_TOKEN, concurrency, received, logVars, depVars>>

NextRespond ==
    \E t \in Handlers :
        \/ Receive(t)
        \/ Begin(t)
        \/ Import(t)
        \/ Cache(t)
        \/ Load(t)
        \/ Infer(t)
        \/ YieldLocal(t)
        \/ ImportErrorHandler(t)
        \/ LocalErrorHandler(t)
        \/ Token(t)
        \/ Client(t)
        \/ Create(t)
        \/ YieldApi(t)
        \/ ApiErrorHandler(t)
        \/ UnexpectedHandler(t)
        \/ Finish(t)

SpecRespond == InitRespond /\ [][NextRespond]_vars

\* ------------------------------------------------------------------------
\* SpecRespondConcurrent: respond calls on two request threads at once
\* ------------------------------------------------------------------------
InitRespondConcurrent ==
    /\ LogStart
    /\ RespondStart(Cardinality(Handlers), {None})
    /\ DeployStart({<<>>})

SpecRespondConcurrent == InitRespondConcurrent /\ [][NextRespond]_vars

\* ------------------------------------------------------------------------
\* SpecDeploy: one run of deploy.py main(), and of the app it starts
\* ------------------------------------------------------------------------
InitDeploy ==
    /\ LogStart
    /\ RespondStart(1, {None, "hf_secret"})
    /\ DeployStart(DefaultChoices)

\* sys.exit(1)
Exit1 ==
    /\ dpc' = "exited"
    /\ exit_status' = 1

\* main lines 150-157: the pre-selected choice skips build, push and prompt.
MainStart ==
    /\ dpc = "start"
    /\ IF DEFAULT_CHOICE # <<>>
       THEN choice' = Str(DEFAULT_CHOICE[1]) /\ dpc' = "dispatch"
       ELSE choice' = choice /\ dpc' = "build"
    /\ UNCHANGED <<DEFAULT_CHOICE, ran, failed, exit_status, banner, app_env_port,
                   server_port, logVars, respVars>>

\* main lines 159-162, build_image lines 57-60
Build ==
    /\ dpc = "build"
    /\ ran' = Append(ran, "build_image")
    /\ \/ /\ dpc' = "push"
          /\ UNCHANGED <<failed, exit_status>>
       \/ /\ failed' = failed \cup {"build_image"}
          /\ Exit1
    /\ UNCHANGED <<DEFAULT_CHOICE, choice, banner, app_env_port, server_port,
                   logVars, respVars>>

\* main lines 164-167, push_image lines 62-66
Push ==
    /\ dpc = "push"
    /\ ran' = Append(ran, "push_image")
    /\ \/ /\ dpc' = "menu"
          /\ UNCHANGED <<failed, exit_status>>
       \/ /\ failed' = failed \cup {"push_image"}
          /\ Exit1
    /\ UNCHANGED <<DEFAULT_CHOICE, choice, banner, app_env_port, server_port,
                   logVars, respVars>>

\* main lines 169-179: choice = input("Enter choice [1-5]: ").strip()
Menu ==
    /\ dpc = "menu"
    /\ \E typed \in TypedLines : choice' = Strip(typed)
    /\ dpc' = "dispatch"
    /\ UNCHANGED <<DEFAULT_CHOICE, ran, failed, exit_status, banner, app_env_port,
                   server_port, logVars, respVars>>

\* main lines 181-194.  deploy_gcp, deploy_azure and deploy_aws (lines 92-143)
\* return True or False, which main does not look at; run_local (lines 69-77)
\* starts app.py with PORT set to LOCAL_PORT.
Dispatch ==
    /\ dpc = "dispatch"
    /\ LET action == MenuAction(choice)
       IN  CASE action = "invalid" ->
                  /\ Exit1
                  /\ UNCHANGED <<ran, failed, app_env_port>>
             [] action = "skip" ->
                  /\ ran' = Append(ran, action)
                  /\ dpc' = "banner"
                  /\ UNCHANGED <<failed, exit_status, app_env_port>>
             [] action = "run_local" ->
                  /\ ran' = Append(ran, action)
                  /\ app_env_port' = LOCAL_PORT
                  /\ dpc' = "app_import"
                  /\ UNCHANGED <<failed, exit_status>>
             [] OTHER ->
                  /\ ran' = Append(ran, action)
                  /\ dpc' = "banner"
                  /\ \E ok \in BOOLEAN :
                        failed' = IF ok THEN failed ELSE failed \cup {action}
                  /\ UNCHANGED <<exit_status, app_env_port>>
    /\ UNCHANGED <<DEFAULT_CHOICE, choice, banner, server_port, logVars, respVars>>

\* app.py lines 66-75, run as the module is loaded: the background image is
\* read, and the outcome logged.
AppImport ==
    /\ dpc = "app_import"
    /\ \E e \in {Info(72), Error(74)} :
          /\ debug_logs' = Logged(debug_logs, e)
          /\ appended' = Append(appended, e)
    /\ dpc' = "app_main"
    /\ UNCHANGED <<debug_lock, lpc, log_entry, joined, released, nextMsg,
                   nCalls>>
    /\ UNCHANGED <<DEFAULT_CHOICE, choice, ran, failed, exit_status, banner,
                   app_env_port, server_port, respVars>>

\* app.py lines 366-374: the start-up entries, then demo.launch.
AppMain ==
    /\ dpc = "app_main"
    /\ LET es == <<Info(367), Info(368), Info(369), Info(370), Info(371)>>
       IN  /\ debug_logs' = LoggedAll(debug_logs, es)
           /\ appended' = appended \o es
    /\ server_port' = LaunchPort(app_env_port)
    /\ dpc' = "app_running"
    /\ UNCHANGED <<debug_lock, lpc, log_entry, joined, released, nextMsg,
                   nCalls>>
    /\ UNCHANGED <<DEFAULT_CHOICE, choice, ran, failed, exit_status, banner,
                   app_env_port, respVars>>

\* run_local lines 78-86: the app ends (or Ctrl+C is pressed) and run_local
\* returns True, or the app ends with an error and it returns False.
AppExit ==
    /\ dpc = "app_running"
    /\ \E ok \in BOOLEAN :
          failed' = IF ok THEN failed ELSE failed \cup {"run_local"}
    /\ dpc' = "banner"
    /\ UNCHANGED <<DEFAULT_CHOICE, choice, ran, exit_status, banner, app_env_port,
                   server_port, logVars, respVars>>

\* main lines 196-198, and the normal end of the process.
Banner ==
    /\ dpc = "banner"
    /\ banner' = TRUE
    /\ exit_status' = 0
    /\ dpc' = "done"
    /\ UNCHANGED <<DEFAULT_CHOICE, choice, ran, failed, app_env_port, server_port,
                   logVars, respVars>>

NextDeploy ==
    \/ MainStart
    \/ Build
    \/ Push
    \/ Menu
    \/ Dispatch
    \/ AppImport
    \/ AppMain
    \/ AppExit
    \/ Banner

SpecDeploy == InitDeploy /\ [][NextDeploy]_vars

\* ------------------------------------------------------------------------
\* Properties of the debug log
\* ------------------------------------------------------------------------
Min(a, b) == IF a < b THEN a ELSE b

\* The last n elements of s.
LastN(s, n) == SubSeq(s, Len(s) - n + 1, Len(s))

\* C1: whenever debug_lock is free, debug_logs holds at most MAX_LOG_LINES
\* entries, whatever the interleaving of the log_debug calls.
C1_LogBounded == debug_lock = "free" => Len(debug_logs) <= MAX_LOG_LINES

\* A call has appended to a full buffer, trimmed it and freed the lock.
C1_Witness ==
    /\ debug_lock = "free"
    /\ Len(debug_logs) = MAX_LOG_LINES
    /\ nCalls >= 2
    /\ Len(appended) > MAX_LOG_LINES + 1
    /\ \E t \in LogThreads : lpc[t] = "join"

\* C2: whenever debug_lock is free, debug_logs is exactly the last
\* min(n, MAX_LOG_LINES) of the n entries appended so far, in append order.
C2_Fifo ==
    debug_lock = "free" =>
        debug_logs = LastN(appended, Min(Len(appended), MAX_LOG_LINES))

\* Entries were dropped, and the two threads appended in the opposite order
\* to the one in which they formatted their entries.
C2_Witness ==
    /\ debug_lock = "free"
    /\ Len(appended) > MAX_LOG_LINES
    /\ Len(debug_logs) = MAX_LOG_LINES
    /\ debug_logs[MAX_LOG_LINES][2] < debug_logs[MAX_LOG_LINES - 1][2]

\* C12: whatever the interleaving of the log_debug calls, the lines a call of
\* log_debug returns are the buffer as that call left it on freeing the lock
\* (what get_debug_logs would have returned at that moment): their last line
\* is the call's own entry and they are at most MAX_LOG_LINES.
C12_ConsistentSnapshot ==
    [][\A t \in LogThreads :
          (lpc[t] = "join" /\ lpc'[t] = "idle") =>
              /\ joined'[t] = released[t]
              /\ Len(joined'[t]) <= MAX_LOG_LINES
              /\ joined'[t][Len(joined'[t])] = log_entry[t]
      ]_vars

\* ------------------------------------------------------------------------
\* Properties of respond
\* ------------------------------------------------------------------------
\* The entry e is among those the call on thread t has logged.
HasLogged(t, e) == \E i \in 1..Len(did[t].logged) : did[t].logged[i] = e

\* The call on t reached the branch of line 232 and took that side of it.
TookLocal(t) == HasLogged(t, Info(234))
TookRemote(t) == HasLogged(t, Info(281))

\* Number of times e occurs in the sequence s.
Count(s, e) == Cardinality({i \in 1..Len(s) : s[i] = e})

\* C3: the slot pipe holds at most one model.  At the cache check a call
\* whose model name differs from the slot's, or that finds it empty, goes on
\* to load exactly the model it asked for, and a call whose name equals the
\* slot's goes on to inference with nothing loaded and the slot untouched;
\* a successful load leaves the requested model's pipeline in the slot, and
\* nothing but a successful load changes the slot.
C3_PipeCache ==
    [][/\ \A t \in Handlers :
             LET name == req[t].model_name
                 hit == pipe.loaded /\ pipe.name_or_path = name
             IN  /\ (rpc[t] = "cache" /\ rpc'[t] # "cache") =>
                       IF hit
                       THEN rpc'[t] = "infer" /\ pipe' = pipe /\ did'[t].loads = <<>>
                       ELSE rpc'[t] = "load" /\ pipe' = pipe
                 /\ (rpc[t] = "load" /\ rpc'[t] # "load") =>
                       /\ did'[t].loads = <<name>>
                       /\ IF rpc'[t] = "infer"
                          THEN pipe' = [loaded |-> TRUE, name_or_path |-> name]
                          ELSE pipe' = pipe
       /\ pipe' # pipe => \E u \in Handlers : rpc[u] = "load" /\ rpc'[u] = "infer"
      ]_vars

\* A second model has just been loaded over the first one.
C3_Witness ==
    \E t \in Handlers :
        /\ rpc[t] = "infer"
        /\ did[t].loads = <<req[t].model_name>>
        /\ pipe = [loaded |-> TRUE, name_or_path |-> req[t].model_name]
        /\ Count(appended, Info(244)) = 2

C5_ShortCircuit ==
    \A t \in Handlers :
        HasLogged(t, Warn(289)) =>
            /\ did[t].clients = <<>>
            /\ did[t].completions = <<>>
            /\ rpc[t] = "finish" => Len(yielded[t]) = 1 /\ req[t].e = None

\* C5 (amended): a remote call that found no token has only logged the
\* warning: it goes on to create the client with api_key None and, once the
\* client exists, to ask for the completion; what it yields is the
\* completion's content or the API error string, never the warning.
C5_WarnAndGoOn ==
    \A t \in Handlers :
        HasLogged(t, Warn(289)) =>
            /\ HF_TOKEN = None
            /\ rpc[t] # "client" => did[t].clients = <<None>>
            /\ rpc[t] = "yield_api" => Len(did[t].completions) = 1
            /\ rpc[t] = "finish" =>
                  IF req[t].e = None
                  THEN /\ Len(did[t].completions) = 1
                       /\ yielded[t] = <<req[t].response>>
                  ELSE yielded[t] = <<ErrorString("API Error", req[t].e)>>

\* Without a token, the completion was asked for and its content yielded.
C5_Witness ==
    \E t \in Handlers :
        /\ HasLogged(t, Warn(289))
        /\ rpc[t] = "finish"
        /\ req[t].e = None
        /\ did[t].clients = <<None>>
        /\ Len(did[t].completions) = 1
        /\ yielded[t] = <<req[t].response>>

RespondPositions ==
    {"idle", "begin", "import", "cache", "load", "infer", "yield_local",
     "import_error", "local_error", "token", "client", "create", "yield_api",
     "api_error", "unexpected", "finish"}

\* C6: no exception leaves respond: a raised exception is always in one of
\* the handlers, and the call then ends having yielded exactly one string,
\* which starts with the error marker; no import, load, inference, client
\* creation or completion is attempted twice in a call; and every request
\* received is either being served or has been served to its end.
C6_ErrorsCaught ==
    /\ received = Len(outcomes) + Cardinality({t \in Handlers : rpc[t] # "idle"})
    /\ \A t \in Handlers :
        /\ rpc[t] \in RespondPositions
        /\ did[t].imports <= 1
        /\ Len(did[t].loads) <= 1
        /\ Len(did[t].inferences) <= 1
        /\ Len(did[t].clients) <= 1
        /\ Len(did[t].completions) <= 1
        /\ req[t].e # None =>
              /\ rpc[t] \in {"import_error", "local_error", "api_error",
                             "unexpected", "finish"}
              /\ rpc[t] = "finish" =>
                    /\ Len(yielded[t]) = 1
                    /\ Head(yielded[t][1]) = ERROR_MARKER
              /\ rpc[t] # "finish" => yielded[t] = <<>>

\* A failed inference was turned into an error string, after an earlier
\* request had failed too and this one was still served.
C6_Witness ==
    \E t \in Handlers :
        /\ outcomes = <<"error">>
        /\ rpc[t] = "finish"
        /\ req[t].e = "Exception"
        /\ Len(did[t].inferences) = 1
        /\ Head(yielded[t][1]) = ERROR_MARKER

\* The model names the call on t has passed to pipeline() or to the API.
BackendNames(t) ==
    {did[t].loads[i] : i \in 1..Len(did[t].loads)}
        \cup {did[t].completions[i].model : i \in 1..Len(did[t].completions)}

\* The entry of LOCAL_MODELS or API_MODELS that MODEL_OPTIONS[i] was made of.
OriginalModel(i) ==
    IF i <= Len(LOCAL_MODELS) THEN LOCAL_MODELS[i]
    ELSE API_MODELS[i - Len(LOCAL_MODELS)]

OptionNames(t) ==
    \A i \in 1..Len(MODEL_OPTIONS) :
        req[t].selected_model = MODEL_OPTIONS[i] =>
            BackendNames(t) \subseteq {OriginalModel(i)}

\* C7 (as stated): a call that reached the branch is on the local path
\* exactly if selected_model ends with "(local)" and else on the remote
\* path; a finished local call has run inference exactly once and yielded
\* exactly one completed string; the backend gets the original model name.
C7_LocalRunsOnce ==
    \A t \in Handlers :
        (TookLocal(t) \/ TookRemote(t)) =>
            /\ TookLocal(t) <=> EndsWith(req[t].selected_model, LocalSuffix)
            /\ TookRemote(t) <=> ~EndsWith(req[t].selected_model, LocalSuffix)
            /\ (rpc[t] = "finish" /\ TookLocal(t)) =>
                  /\ Len(did[t].inferences) = 1
                  /\ req[t].e = None
                  /\ yielded[t] = <<Strip(req[t].response)>>
            /\ OptionNames(t)

\* C7 (amended): as stated, but a finished local call has run inference at
\* most once, and exactly once if its import and its load (if any) did not
\* fail; it has yielded exactly one string, the completed and stripped text
\* if nothing failed and an error string if something did.
C7_Dispatch ==
    \A t \in Handlers :
        (TookLocal(t) \/ TookRemote(t)) =>
            /\ TookLocal(t) <=> EndsWith(req[t].selected_model, LocalSuffix)
            /\ TookRemote(t) <=> ~EndsWith(req[t].selected_model, LocalSuffix)
            /\ TookRemote(t) => did[t].inferences = <<>> /\ did[t].loads = <<>>
            /\ TookLocal(t) => did[t].clients = <<>> /\ did[t].completions = <<>>
            /\ (rpc[t] = "finish" /\ TookLocal(t)) =>
                  /\ Len(did[t].inferences) <= 1
                  /\ (HasLogged(t, Info(244)) \/ HasLogged(t, Info(246)))
                        => Len(did[t].inferences) = 1
                  /\ Len(yielded[t]) = 1
                  /\ IF req[t].e = None
                     THEN /\ Len(did[t].inferences) = 1
                          /\ yielded[t] = <<Strip(req[t].response)>>
                     ELSE Head(yielded[t][1]) = ERROR_MARKER
            /\ OptionNames(t)

\* The local radio option was served from the pipeline loaded for its
\* original name, and the text was yielded stripped.
C7_Witness ==
    \E t \in Handlers :
        /\ rpc[t] = "finish"
        /\ req[t].selected_model = MODEL_OPTIONS[1]
        /\ did[t].loads = <<LOCAL_MODELS[1]>>
        /\ did[t].inferences = <<LOCAL_MODELS[1]>>
        /\ req[t].response # Strip(req[t].response)
        /\ yielded[t] = <<Strip(req[t].response)>>

\* C11: with no lock around pipe, and whatever the interleaving of the
\* respond calls, every inference a call runs is run on the pipeline of the
\* model that call asked for, and the slot only ever receives the model that
\* one of the calls under way asked for.
C11_OwnPipeline ==
    [][/\ \A t \in Handlers :
             Len(did'[t].inferences) > Len(did[t].inferences) =>
                 did'[t].inferences[Len(did'[t].inferences)]
                     = req[t].model_name
       /\ pipe' # pipe =>
             \E t \in Handlers :
                 /\ rpc[t] \notin {"idle", "begin"}
                 /\ pipe'.name_or_path = req[t].model_name
      ]_vars

\* ------------------------------------------------------------------------
\* Properties of the deployment script and of the app's start
\* ------------------------------------------------------------------------
\* C8 (as stated): once the UI server listens, it listens on the port named
\* by PORT whenever PORT was set in the app's environment.
C8_PortFromEnv ==
    (server_port # 0 /\ app_env_port # 0) => server_port = app_env_port

IsMenuAction(a) ==
    a \in {"deploy_gcp", "deploy_azure", "deploy_aws", "skip", "run_local"}

\* main is past the if / elif chain of lines 181-194.
Dispatched == dpc \in {"app_import", "app_main", "app_running", "banner", "done"}
                 \/ (dpc = "exited" /\ failed = {})

\* C9: once main is past the menu dispatch, choice "1" has run the GCP
\* deployment and no other menu action, "2" the Azure deployment, "3" the AWS
\* instructions, "4" the skip and "5" the local run; with any other choice
\* no menu action has run, the process has exited with status 1, and the
\* completion banner has not been printed.
C9_MenuDispatch ==
    Dispatched =>
        LET menuRan == SelectSeq(ran, IsMenuAction)
        IN  /\ choice = <<"1">> => menuRan = <<"deploy_gcp">>
            /\ choice = <<"2">> => menuRan = <<"deploy_azure">>
            /\ choice = <<"3">> => menuRan = <<"deploy_aws">>
            /\ choice = <<"4">> => menuRan = <<"skip">>
            /\ choice = <<"5">> => menuRan = <<"run_local">>
            /\ choice \in {<<"1">>, <<"2">>, <<"3">>, <<"4">>, <<"5">>} =>
                  /\ exit_status # 1
                  /\ dpc = "done" => banner
            /\ choice \notin {<<"1">>, <<"2">>, <<"3">>, <<"4">>, <<"5">>} =>
                  /\ menuRan = <<>>
                  /\ dpc = "exited"
                  /\ exit_status = 1
                  /\ ~banner

\* After build and push, the typed choice 2 has run the Azure deployment
\* and the banner has been printed.
C9_Witness ==
    /\ dpc = "done"
    /\ choice = <<"2">>
    /\ ran = <<"build_image", "push_image", "deploy_azure">>
    /\ banner

\* C10: a cloud deployment step is called only after build_image and then
\* push_image have been called and have succeeded in the same run, and a
\* failed build or push ends the run with status 1 as its last step.
C10_BuildPushFirst ==
    /\ \A i \in 1..Len(ran) :
          ran[i] \in {"deploy_gcp", "deploy_azure", "deploy_aws"} =>
              /\ \E j, k \in 1..(i - 1) :
                    j < k /\ ran[j] = "build_image" /\ ran[k] = "push_image"
              /\ failed \cap {"build_image", "push_image"} = {}
    /\ failed \cap {"build_image", "push_image"} # {} =>
          /\ dpc = "exited"
          /\ exit_status = 1
          /\ ran[Len(ran)] \in failed

====
